---- MODULE Spec2Model ----
(***************************************************************************)
(* Model of the chat client of AzureMLChat-Training-Sample: the three UI   *)
(* variants (LV1 non-streaming, LV2 streaming, LV3 streaming with the HTTP *)
(* call log), the endpoint caller BaseChatApp.exec_api they share, and the *)
(* session components the Gradio handlers read and write.                  *)
(*                                                                         *)
(* Message and answer strings are sequences of one-character strings, so   *)
(* that the character loop of respond_stream is modelled as the code runs   *)
(* it; status reasons and class names are TLA+ strings.                    *)
(***************************************************************************)
EXTENDS Integers, Sequences, FiniteSets, TLC

\* Bound of the model: number of messages submitted in one session.
MaxTurns == 3

\* ---------------------------------------------------------------- inputs

\* Messages the user types into the Textbox.
Msgs == {<<"h", "i">>, <<"y", "o">>}

\* The default of res_json.get("answer", "<EMPTY>"), as a character sequence.
EMPTY == <<"<", "E", "M", "P", "T", "Y", ">">>

\* Answers the endpoint may put under the "answer" key.
Answers == {<<>>, <<"o", "k">>}

\* A response body: undecodable, or a JSON object with or without "answer".
Undecodable == [decodable |-> FALSE, has_answer |-> FALSE, answer |-> <<>>]
NoAnswerBody == [decodable |-> TRUE, has_answer |-> FALSE, answer |-> <<>>]
AnswerBody(a) == [decodable |-> TRUE, has_answer |-> TRUE, answer |-> a]

\* What the network does with one POST: the connection fails, or the
\* endpoint answers with a status line and a body.
Responses ==
    {[net |-> "refused", status |-> 0, reason |-> "None", body |-> Undecodable],
     [net |-> "ok", status |-> 500, reason |-> "Internal Server Error",
      body |-> Undecodable],
     [net |-> "ok", status |-> 200, reason |-> "OK", body |-> Undecodable],
     [net |-> "ok", status |-> 200, reason |-> "OK", body |-> NoAnswerBody]}
    \cup {[net |-> "ok", status |-> 200, reason |-> "OK", body |-> AnswerBody(a)] :
            a \in Answers}

NoResponse == [net |-> "none", status |-> 0, reason |-> "None", body |-> Undecodable]

\* ------------------------------------------------------------ exec_api

\* self._endpoint_key: the key or token setup_endpoint got for the endpoint.
VARIABLE endpoint_key

\* Keys the endpoint may have. One is also a message a user may type, the
\* other an answer the endpoint may give.
Keys == {<<"y", "o">>, <<"o", "k">>}

\* f"Bearer {token}": the value of an Authorization header.
Bearer(token) == [scheme |-> "Bearer", token |-> token]

\* The headers exec_api sends with the POST (the one the call log masks).
headers == [Authorization |-> Bearer(endpoint_key)]

\* Python's None as a value of response.json(), and a decoded JSON object.
JNone == [none |-> TRUE, has_answer |-> FALSE, answer |-> <<>>]
JObject(body) == [none |-> FALSE, has_answer |-> body.has_answer, answer |-> body.answer]

\* The bare None that exec_api returns, and the 3-tuple it returns.
RetNone == [tuple |-> FALSE, json |-> JNone, status |-> 0, reason |-> "None"]
RetTuple(j, s, r) == [tuple |-> TRUE, json |-> j, status |-> s, reason |-> r]

\* response.raise_for_status(): HTTPError for 4xx and 5xx.
raise_for_status(resp) == resp.status >= 400 /\ resp.status < 600

\* Mutant of exec_api: a failed call is retried once.
exec_api_retry(m, ml, resp) ==
    LET payload == [question |-> m, chat_history |-> ml] IN
    IF resp.net = "refused"
    THEN [raised |-> TRUE, posts |-> 1, payload |-> payload, ret |-> RetNone]
    ELSE IF raise_for_status(resp)
    THEN [raised |-> FALSE, posts |-> 2, payload |-> payload, ret |-> RetNone]
    ELSE IF ~resp.body.decodable
    THEN [raised |-> FALSE, posts |-> 1, payload |-> payload,
          ret |-> RetTuple(JNone, 0, "None")]
    ELSE [raised |-> FALSE, posts |-> 1, payload |-> payload,
          ret |-> RetTuple(JObject(resp.body), resp.status, resp.reason)]

\* Mutant of exec_api: the request body is built without the history.
exec_api_no_history(m, ml, resp) ==
    LET payload == [question |-> m, chat_history |-> <<>>] IN
    IF resp.net = "refused"
    THEN [raised |-> TRUE, posts |-> 1, payload |-> payload, ret |-> RetNone]
    ELSE IF raise_for_status(resp)
    THEN [raised |-> FALSE, posts |-> 1, payload |-> payload, ret |-> RetNone]
    ELSE IF ~resp.body.decodable
    THEN [raised |-> FALSE, posts |-> 1, payload |-> payload,
          ret |-> RetTuple(JNone, 0, "None")]
    ELSE [raised |-> FALSE, posts |-> 1, payload |-> payload,
          ret |-> RetTuple(JObject(resp.body), resp.status, resp.reason)]

\* BaseChatApp.exec_api: one requests.post, outside the try block (an
\* exception of the transport propagates); inside it, HTTPError gives None,
\* a JSONDecodeError gives the tuple (None, None, None), and a decoded body
\* gives (json, status_code, reason). posts counts the POSTs sent.
exec_api(m, ml, resp) ==
    LET payload == [question |-> m, chat_history |-> ml] IN
    IF resp.net = "refused"
    THEN [raised |-> TRUE, posts |-> 1, payload |-> payload, ret |-> RetNone]
    ELSE IF raise_for_status(resp)
    THEN [raised |-> FALSE, posts |-> 1, payload |-> payload, ret |-> RetNone]
    ELSE IF ~resp.body.decodable
    THEN [raised |-> FALSE, posts |-> 1, payload |-> payload,
          ret |-> RetTuple(JNone, 0, "None")]
    ELSE [raised |-> FALSE, posts |-> 1, payload |-> payload,
          ret |-> RetTuple(JObject(resp.body), resp.status, resp.reason)]

\* `if not (result := self.exec_api(...))`: None is falsy, any 3-tuple is
\* truthy, (None, None, None) included.
not_result(ret) == ~ret.tuple

\* Mutant of get_raises: a None body is read as an empty object.
get_never_raises(res_json) == FALSE

\* res_json.get(...) raises AttributeError when res_json is None.
get_raises(res_json) == res_json.none

\* Mutant of get_answer: a missing key gives the empty string.
get_answer_blank(res_json) == IF res_json.has_answer THEN res_json.answer ELSE <<>>

\* res_json.get("answer", "<EMPTY>")
get_answer(res_json) == IF res_json.has_answer THEN res_json.answer ELSE EMPTY

\* ------------------------------------------------------- history entries

\* {"role": ..., "content": ...}: an entry of the display log (gr.Chatbot).
Entry(role, content) == [role |-> role, content |-> content]

\* {"inputs": {"question": msg}, "outputs": bot_message}: an entry of the ML log.
MLEntry(m, a) == [inputs |-> [question |-> m], outputs |-> a]

\* Mutant of append_ml: the outputs are filled in later.
append_ml_blank(ml, m, a) == Append(ml, MLEntry(m, <<>>))

\* Mutant of append_ml: the entry is put in front.
append_ml_front(ml, m, a) == <<MLEntry(m, a)>> \o ml

\* Mutant of append_chat: the two appends are swapped.
append_chat_swapped(ch, m, a) == ch \o <<Entry("assistant", a), Entry("user", m)>>

\* chat_history.append(user); chat_history.append(assistant)
append_chat(ch, m, a) == ch \o <<Entry("user", m), Entry("assistant", a)>>

\* chat_history_for_ml.append({...})
append_ml(ml, m, a) == Append(ml, MLEntry(m, a))

\* -------------------------------------------------------------- call log

\* gr.HTML(value=""): the call log document before the first render.
NoDoc == [rendered |-> FALSE, body |-> <<>>]

\* Mutant of format_http_log: only the newest entry is wrapped.
format_http_log_latest(h) == [rendered |-> TRUE, body |-> SubSeq(h, Len(h), Len(h))]

\* utils.format_http_log: the accumulated entries wrapped in the document.
format_http_log(h) == [rendered |-> TRUE, body |-> h]

\* The text create_http_log writes in place of the key.
MASKED_APIKey ==
    <<"&", "l", "t", ";", " ", "M", "A", "S", "K", "E", "D", "_", "A", "P",
      "I", "K", "e", "y", " ", "&", "g", "t", ";">>

\* The header value create_http_log writes for Authorization.
MASKED == Bearer(MASKED_APIKey)

\* Mutant of create_http_log: the block shows the header that was sent.
create_http_log_unmasked(n, jinput, joutput, code, reason) ==
    [call_count |-> n, authorization |-> headers.Authorization, jinput |-> jinput,
     joutput |-> joutput, res_status_code |-> code, res_status_reason |-> reason]

\* Mutant of create_http_log: the blocks are numbered from 0.
create_http_log_from_zero(n, jinput, joutput, code, reason) ==
    [call_count |-> n - 1, authorization |-> MASKED, jinput |-> jinput,
     joutput |-> joutput, res_status_code |-> code, res_status_reason |-> reason]

\* utils.create_http_log: one block of the call log.
create_http_log(n, jinput, joutput, code, reason) ==
    [call_count |-> n, authorization |-> MASKED, jinput |-> jinput,
     joutput |-> joutput, res_status_code |-> code, res_status_reason |-> reason]

\* ------------------------------------------------------------- envelopes

\* What respond_simple gives back on its bare `return`.
NoneEnv ==
    [cls |-> "NoneType", bot_message |-> <<>>, chat_history |-> <<>>,
     chat_history_for_ml |-> <<>>, call_history |-> <<>>,
     call_log_md_display |-> NoDoc, call_count |-> 0]

\* chat.AISimpleResponse: three fields (the audit fields do not exist).
AISimpleResponse(b, ch, ml) ==
    [cls |-> "AISimpleResponse", bot_message |-> b, chat_history |-> ch,
     chat_history_for_ml |-> ml, call_history |-> <<>>,
     call_log_md_display |-> NoDoc, call_count |-> 0]

\* chat.AICustomResponse: six fields.
AICustomResponse(b, ch, ml, h, d, n) ==
    [cls |-> "AICustomResponse", bot_message |-> b, chat_history |-> ch,
     chat_history_for_ml |-> ml, call_history |-> h,
     call_log_md_display |-> d, call_count |-> n]

\* Attribute access on a response object: AttributeError when missing.
SimpleFields == {"bot_message", "chat_history", "chat_history_for_ml"}
AuditFields == {"call_history", "call_log_md_display", "call_count"}
Fields(env) ==
    CASE env.cls = "AISimpleResponse" -> SimpleFields
      [] env.cls = "AICustomResponse" -> SimpleFields \cup AuditFields
      [] OTHER -> {}

\* ----------------------------------------------------------------- state

VARIABLES
    variant,              \* which program runs: "LV1", "LV2" or "LV3"
    msg,                  \* gr.Textbox
    chat_history,         \* gr.Chatbot(type="messages"): the display log
    chat_history_for_ml,  \* gr.State(list()): the ML log
    call_history,         \* gr.State(str()), LV3
    call_log_md_display,  \* gr.HTML(value=""), LV3
    call_count,           \* gr.State(0), LV3
    frame,                \* the running (or last) respond_* call: pc and locals
    posts,                \* POSTs the endpoint has received
    submits,              \* messages submitted
    requests,             \* what the endpoint has received, one record per call
    turn                  \* record of the current (or last) turn

vars == <<endpoint_key, variant, msg, chat_history, chat_history_for_ml, call_history,
          call_log_md_display, call_count, frame, posts, submits, requests,
          turn>>

ui == <<msg, chat_history, chat_history_for_ml, call_history,
        call_log_md_display, call_count>>

Variants == {"LV1", "LV2", "LV3"}

\* The frame of a respond_* call: its position and its locals. The local
\* chat_history is the list built from the Chatbot value for this call; the
\* local chat_history_for_ml is the very list object held by the gr.State
\* (gr.State hands the stored object to the handler, not a copy).
Frame(pc, m, ch, ml, bot, response, h, d, n) ==
    [pc |-> pc, msg |-> m, chat_history |-> ch, chat_history_for_ml |-> ml,
     bot_message |-> bot, response |-> response,
     call_history |-> h, call_log_md_display |-> d, call_count |-> n]

NoFrame == Frame("idle", <<>>, <<>>, <<>>, <<>>, <<>>, <<>>, NoDoc, 0)

\* The three audit inputs of LV3 handle_response.
Audit(h, d, n) == [call_history |-> h, call_log_md_display |-> d, call_count |-> n]

\* The turn record: the inputs of the submit, the objects the emitter
\* produced (returned or yielded), how many of them the handler passed on
\* to the components, and whether an exception left the handler.
Turn(m, resp, ch, ml, ab, kind, envs, delivered, raised, done) ==
    [msg |-> m, resp |-> resp, chat_before |-> ch, ml_before |-> ml,
     audit_before |-> ab, kind |-> kind, envs |-> envs,
     delivered |-> delivered, raised |-> raised, done |-> done]

NoTurn ==
    Turn(<<>>, NoResponse, <<>>, <<>>, Audit(<<>>, NoDoc, 0), "none", <<>>, 0,
         FALSE, TRUE)

\* One call as the endpoint sees it: the message that was submitted, the
\* Authorization header and the JSON body of the POST, and the response it
\* gave.
Request(m, payload, resp) ==
    [msg |-> m, authorization |-> headers.Authorization, payload |-> payload,
     resp |-> resp]

\* The components and the bookkeeping right after construction.
Components ==
    /\ msg = <<>>
    /\ chat_history = <<>>
    /\ chat_history_for_ml = <<>>
    /\ call_history = <<>>
    /\ call_log_md_display = NoDoc
    /\ call_count = 0
    /\ frame = NoFrame
    /\ posts = 0
    /\ submits = 0
    /\ requests = <<>>
    /\ turn = NoTurn

\* Any of the three programs, started with the first of the keys.
Init ==
    /\ endpoint_key = <<"y", "o">>
    /\ variant \in Variants
    /\ Components

\* The program with the call log, started with any of the keys.
InitLog ==
    /\ endpoint_key \in Keys
    /\ variant = "LV3"
    /\ Components

\* ------------------------------------------------------ LV1: atomic mode

\* LV1 ChatApp.respond_simple. ret is what the caller gets (NoneEnv for the
\* bare `return`), raised says an exception left the function, and
\* chat_history / chat_history_for_ml are the two list objects passed in,
\* as the function leaves them.
respond_simple(m, ch, ml, resp) ==
    LET call == exec_api(m, ml, resp)
        bot == get_answer(call.ret.json)
    IN  IF call.raised
        THEN [raised |-> TRUE, posts |-> call.posts, payload |-> call.payload, ret |-> NoneEnv,
              chat_history |-> ch, chat_history_for_ml |-> ml, bot_message |-> <<>>]
        ELSE IF not_result(call.ret)
        THEN [raised |-> FALSE, posts |-> call.posts, payload |-> call.payload, ret |-> NoneEnv,
              chat_history |-> ch, chat_history_for_ml |-> ml, bot_message |-> <<>>]
        ELSE IF get_raises(call.ret.json)
        THEN [raised |-> TRUE, posts |-> call.posts, payload |-> call.payload, ret |-> NoneEnv,
              chat_history |-> ch, chat_history_for_ml |-> ml, bot_message |-> <<>>]
        ELSE [raised |-> FALSE, posts |-> call.posts, payload |-> call.payload,
              ret |-> AISimpleResponse(<<>>, append_chat(ch, m, bot),
                                       append_ml(ml, m, bot)),
              chat_history |-> append_chat(ch, m, bot),
              chat_history_for_ml |-> append_ml(ml, m, bot),
              bot_message |-> bot]

\* The fields each handle_response reads from a response object.
handler_reads(v) == IF v = "LV3" THEN SimpleFields \cup AuditFields ELSE SimpleFields

\* Reading them raises AttributeError when the object lacks one.
handler_raises(v, env) == ~(handler_reads(v) \subseteq Fields(env))

\* LV1 handle_response, wired to msg.submit: the user's text and the
\* Chatbot value are read from the page, the gr.State hands over its list
\* object; respond_simple runs; the three fields of its result are written
\* to the outputs. An append to chat_history_for_ml is an append to the
\* object held by the gr.State, whether or not the outputs are written.
SubmitLV1 ==
    /\ variant = "LV1"
    /\ frame.pc = "idle"
    /\ submits < MaxTurns
    /\ \E m \in Msgs, resp \in Responses :
        LET r == respond_simple(m, chat_history, chat_history_for_ml, resp)
            fails == r.raised \/ handler_raises("LV1", r.ret)
        IN  /\ posts' = posts + r.posts
            /\ submits' = submits + 1
            /\ frame' = Frame("idle", m, r.chat_history, r.chat_history_for_ml,
                              r.bot_message, <<>>, <<>>, NoDoc, 0)
            /\ requests' = Append(requests, Request(m, r.payload, resp))
            /\ turn' = Turn(m, resp, chat_history, chat_history_for_ml,
                            Audit(call_history, call_log_md_display, call_count),
                            "simple", IF r.raised THEN <<>> ELSE <<r.ret>>,
                            IF fails THEN 0 ELSE 1, fails, TRUE)
            /\ msg' = IF fails THEN m ELSE r.ret.bot_message
            /\ chat_history' = IF fails THEN chat_history ELSE r.ret.chat_history
            /\ chat_history_for_ml' =
                   IF fails THEN r.chat_history_for_ml ELSE r.ret.chat_history_for_ml
            /\ UNCHANGED <<endpoint_key, variant, call_history, call_log_md_display, call_count>>

\* --------------------------------------------- LV2, LV3: streaming mode

\* LV2 ChatApp.respond_stream from its first line to the character loop
\* (the part the first next() of the generator runs before the loop).
\* yielded holds the failure envelope when the function yields it; frame
\* is the generator's frame: "failed" (suspended at the failure yield),
\* "running" (before the next loop iteration) or "idle" (it raised).
respond_stream_LV2(m, ch, ml, resp) ==
    LET call == exec_api(m, ml, resp)
        bot == get_answer(call.ret.json)
    IN  IF call.raised
        THEN [raised |-> TRUE, posts |-> call.posts, payload |-> call.payload, yielded |-> <<>>,
              frame |-> Frame("idle", m, ch, ml, <<>>, <<>>, <<>>, NoDoc, 0)]
        ELSE IF not_result(call.ret)
        THEN [raised |-> FALSE, posts |-> call.posts, payload |-> call.payload,
              yielded |-> <<AISimpleResponse(<<>>, ch, ml)>>,
              frame |-> Frame("failed", m, ch, ml, <<>>, <<>>, <<>>, NoDoc, 0)]
        ELSE IF get_raises(call.ret.json)
        THEN [raised |-> TRUE, posts |-> call.posts, payload |-> call.payload, yielded |-> <<>>,
              frame |-> Frame("idle", m, ch, ml, <<>>, <<>>, <<>>, NoDoc, 0)]
        ELSE [raised |-> FALSE, posts |-> call.posts, payload |-> call.payload, yielded |-> <<>>,
              frame |-> Frame("running", m, append_chat(ch, m, bot),
                              append_ml(ml, m, bot), bot, <<>>,
                              <<>>, NoDoc, 0)]

\* Mutant of respond_stream_LV3: the call record is written after the
\* history appends, from the payload that holds the list appended to.
respond_stream_LV3_record_last(m, ch, ml, h, d, n, resp) ==
    LET call == exec_api(m, ml, resp)
        payload == [question |-> m,
                    chat_history |-> IF get_raises(call.ret.json) THEN ml
                                     ELSE append_ml(ml, m, get_answer(call.ret.json))]
        n2 == n + 1
        h2 == Append(h, create_http_log(n2, payload, call.ret.json,
                                        call.ret.status, call.ret.reason))
        d2 == format_http_log(h2)
        bot == get_answer(call.ret.json)
    IN  IF call.raised
        THEN [raised |-> TRUE, posts |-> call.posts, payload |-> call.payload, yielded |-> <<>>,
              frame |-> Frame("idle", m, ch, ml, <<>>, <<>>, h, d, n)]
        ELSE IF not_result(call.ret)
        THEN [raised |-> FALSE, posts |-> call.posts, payload |-> call.payload,
              yielded |-> <<AISimpleResponse(<<>>, ch, ml)>>,
              frame |-> Frame("failed", m, ch, ml, <<>>, <<>>, h, d, n)]
        ELSE IF get_raises(call.ret.json)
        THEN [raised |-> TRUE, posts |-> call.posts, payload |-> call.payload, yielded |-> <<>>,
              frame |-> Frame("idle", m, ch, ml, <<>>, <<>>, h2, d2, n2)]
        ELSE [raised |-> FALSE, posts |-> call.posts, payload |-> call.payload, yielded |-> <<>>,
              frame |-> Frame("running", m, append_chat(ch, m, bot),
                              append_ml(ml, m, bot), bot, <<>>,
                              h2, d2, n2)]

\* LV3 ChatApp.respond_stream up to the character loop: as LV2, with the
\* call record built, counted and rendered between the call and
\* res_json.get (json.dumps(None) is "null": the record is built for the
\* (None, None, None) tuple too, before res_json.get raises).
respond_stream_LV3(m, ch, ml, h, d, n, resp) ==
    LET call == exec_api(m, ml, resp)
        payload == [question |-> m, chat_history |-> ml]
        n2 == n + 1
        h2 == Append(h, create_http_log(n2, payload, call.ret.json,
                                        call.ret.status, call.ret.reason))
        d2 == format_http_log(h2)
        bot == get_answer(call.ret.json)
    IN  IF call.raised
        THEN [raised |-> TRUE, posts |-> call.posts, payload |-> call.payload, yielded |-> <<>>,
              frame |-> Frame("idle", m, ch, ml, <<>>, <<>>, h, d, n)]
        ELSE IF not_result(call.ret)
        THEN [raised |-> FALSE, posts |-> call.posts, payload |-> call.payload,
              yielded |-> <<AISimpleResponse(<<>>, ch, ml)>>,
              frame |-> Frame("failed", m, ch, ml, <<>>, <<>>, h, d, n)]
        ELSE IF get_raises(call.ret.json)
        THEN [raised |-> TRUE, posts |-> call.posts, payload |-> call.payload, yielded |-> <<>>,
              frame |-> Frame("idle", m, ch, ml, <<>>, <<>>, h2, d2, n2)]
        ELSE [raised |-> FALSE, posts |-> call.posts, payload |-> call.payload, yielded |-> <<>>,
              frame |-> Frame("running", m, append_chat(ch, m, bot),
                              append_ml(ml, m, bot), bot, <<>>,
                              h2, d2, n2)]

\* Mutant of loop_has_next: the loop stops one character early.
loop_stops_early(f) == Len(f.response) + 1 < Len(f.bot_message)

\* `for message in bot_message`: there is a next character.
loop_has_next(f) == Len(f.response) < Len(f.bot_message)

\* Mutant of next_response: the character is put in front.
next_response_prepend(f) == <<f.bot_message[Len(f.response) + 1]>> \o f.response

\* One iteration of `for message in bot_message`: the next character is
\* added to response["content"].
next_response(f) == Append(f.response, f.bot_message[Len(f.response) + 1])

\* Mutant of reveal: the slice [:-1] is forgotten.
reveal_keeps_last(ch, response) == ch \o <<Entry("assistant", response)>>

\* chat_history[:-1] + [response]
reveal(ch, response) == SubSeq(ch, 1, Len(ch) - 1) \o <<Entry("assistant", response)>>

\* Mutant of yielded_after_extend: the envelopes hold the response dict
\* itself, so each of them shows the content as extended.
yielded_by_reference(envs, response) ==
    [i \in 1..Len(envs) |->
        [envs[i] EXCEPT !.chat_history = reveal(@, response)]]

\* What `response["content"] += message` does to the envelopes yielded so
\* far. The loop extends one dict and puts that dict in every list it hands
\* to AISimpleResponse / AICustomResponse, but a pydantic BaseModel builds
\* its own lists and dicts from the values it is given: the envelopes hold
\* copies and stay as they were yielded.
yielded_after_extend(envs, response) == envs

\* Mutant of stream_envelope_LV2: the ML log shows the turn only once the
\* whole answer is revealed.
stream_envelope_LV2_late(f) ==
    AISimpleResponse(<<>>, reveal(f.chat_history, next_response(f)),
                     IF Len(next_response(f)) < Len(f.bot_message)
                     THEN SubSeq(f.chat_history_for_ml, 1,
                                 Len(f.chat_history_for_ml) - 1)
                     ELSE f.chat_history_for_ml)

\* The object one loop iteration yields, LV2 and LV3.
stream_envelope_LV2(f) ==
    AISimpleResponse(<<>>, reveal(f.chat_history, next_response(f)),
                     f.chat_history_for_ml)

\* Mutant of stream_envelope_LV3: the count goes up with every envelope.
stream_envelope_LV3_counting(f) ==
    AICustomResponse(<<>>, reveal(f.chat_history, next_response(f)),
                     f.chat_history_for_ml, f.call_history,
                     f.call_log_md_display, f.call_count + Len(f.response))

stream_envelope_LV3(f) ==
    AICustomResponse(<<>>, reveal(f.chat_history, next_response(f)),
                     f.chat_history_for_ml, f.call_history,
                     f.call_log_md_display, f.call_count)

\* The handler's `yield response.bot_message, response.chat_history, ...`:
\* the outputs take the fields of the response object.
Deliver(env) ==
    /\ msg' = env.bot_message
    /\ chat_history' = env.chat_history
    /\ chat_history_for_ml' = env.chat_history_for_ml
    /\ IF variant = "LV3"
       THEN /\ call_history' = env.call_history
            /\ call_log_md_display' = env.call_log_md_display
            /\ call_count' = env.call_count
       ELSE UNCHANGED <<call_history, call_log_md_display, call_count>>

\* The first next() on the generator, LV2 and LV3 handle_response: the
\* call, and on failure the one envelope; on success the appends, after
\* which the generator sleeps before its first loop iteration. The append
\* to chat_history_for_ml is an append to the list held by the gr.State.
StartStream(m, resp, r) ==
    LET fails == r.raised
                 \/ (r.yielded # <<>> /\ handler_raises(variant, r.yielded[1]))
        passed == r.yielded # <<>> /\ ~fails
    IN  /\ posts' = posts + r.posts
        /\ submits' = submits + 1
        /\ frame' = IF fails THEN [r.frame EXCEPT !.pc = "idle"] ELSE r.frame
        /\ requests' = Append(requests, Request(m, r.payload, resp))
        /\ turn' = Turn(m, resp, chat_history, chat_history_for_ml,
                        Audit(call_history, call_log_md_display, call_count),
                        "stream", r.yielded, IF passed THEN 1 ELSE 0, fails,
                        fails)
        /\ IF passed
           THEN Deliver(r.yielded[1])
           ELSE /\ msg' = m
                /\ chat_history_for_ml' = r.frame.chat_history_for_ml
                /\ UNCHANGED <<chat_history, call_history, call_log_md_display,
                               call_count>>
        /\ UNCHANGED <<endpoint_key, variant>>

SubmitLV2 ==
    /\ variant = "LV2"
    /\ frame.pc = "idle"
    /\ submits < MaxTurns
    /\ \E m \in Msgs, resp \in Responses :
        StartStream(m, resp,
                    respond_stream_LV2(m, chat_history, chat_history_for_ml, resp))

SubmitLV3 ==
    /\ variant = "LV3"
    /\ frame.pc = "idle"
    /\ submits < MaxTurns
    /\ \E m \in Msgs, resp \in Responses :
        StartStream(m, resp,
                    respond_stream_LV3(m, chat_history, chat_history_for_ml,
                                       call_history, call_log_md_display,
                                       call_count, resp))

\* A later next(): time.sleep(delay), one more character, one envelope,
\* which the handler passes on to the outputs.
StreamNext ==
    /\ frame.pc = "running"
    /\ loop_has_next(frame)
    /\ LET env == IF variant = "LV3" THEN stream_envelope_LV3(frame)
                  ELSE stream_envelope_LV2(frame)
       IN  /\ frame' = [frame EXCEPT !.response = next_response(frame)]
           /\ turn' = [turn EXCEPT
                          !.envs = Append(yielded_after_extend(
                                              @, next_response(frame)), env),
                                   !.delivered = @ + 1]
           /\ Deliver(env)
    /\ UNCHANGED <<endpoint_key, variant, posts, submits, requests>>

\* The next() that finds the generator finished: after the failure
\* envelope (`return`), or when the loop has run through bot_message.
StreamEnd ==
    /\ \/ frame.pc = "failed"
       \/ frame.pc = "running" /\ ~loop_has_next(frame)
    /\ frame' = [frame EXCEPT !.pc = "idle"]
    /\ turn' = [turn EXCEPT !.done = TRUE]
    /\ UNCHANGED <<endpoint_key, variant, ui, posts, submits, requests>>

\* ----------------------------------------------------------------- clear

\* LV1, LV2: gr.ClearButton([msg, chat_history]) empties the Textbox and
\* the Chatbot; the gr.State chat_history_for_ml is not among its targets.
ClearButton ==
    /\ variant \in {"LV1", "LV2"}
    /\ msg' = <<>>
    /\ chat_history' = <<>>
    /\ UNCHANGED <<endpoint_key, variant, chat_history_for_ml, call_history,
                   call_log_md_display, call_count, frame, posts, submits,
                   requests, turn>>

\* LV3: clear_chat_btn.click with (list(), str(), str(), list(), str(), 0).
\* A running generator keeps its locals.
clear_chat_btn ==
    /\ variant = "LV3"
    /\ chat_history' = <<>>
    /\ msg' = <<>>
    /\ call_history' = <<>>
    /\ chat_history_for_ml' = <<>>
    /\ call_log_md_display' = NoDoc
    /\ call_count' = 0
    /\ UNCHANGED <<endpoint_key, variant, frame, posts, submits, requests, turn>>

Next ==
    \/ SubmitLV1
    \/ SubmitLV2
    \/ SubmitLV3
    \/ StreamNext
    \/ StreamEnd
    \/ ClearButton
    \/ clear_chat_btn

Spec == Init /\ [][Next]_vars

\* The LV3 session: its submit, its stream and its clear button.
NextLog ==
    \/ SubmitLV3
    \/ StreamNext
    \/ StreamEnd
    \/ clear_chat_btn

SpecLog == InitLog /\ [][NextLog]_vars

\* The session without the clear buttons: submits only.
NextSubmit ==
    \/ SubmitLV1
    \/ SubmitLV2
    \/ SubmitLV3
    \/ StreamNext
    \/ StreamEnd

SpecSubmit == Init /\ [][NextSubmit]_vars

\* ================================================================ claims

\* The two failures of the endpoint call, and its success.
HttpError(resp) == resp.net = "ok" /\ resp.status >= 400
DecodeError(resp) == resp.net = "ok" /\ resp.status < 400 /\ ~resp.body.decodable
Failed(resp) == HttpError(resp) \/ DecodeError(resp)
Succeeded(resp) == resp.net = "ok" /\ resp.status < 400 /\ resp.body.decodable

\* The answer of a successful call: the body's, or the sentinel.
AnswerOf(resp) == IF resp.body.has_answer THEN resp.body.answer ELSE EMPTY

\* The histories the turn is expected to leave after a successful call.
ChatAfter(t) ==
    t.chat_before \o <<Entry("user", t.msg), Entry("assistant", AnswerOf(t.resp))>>
MLAfter(t) == Append(t.ml_before, MLEntry(t.msg, AnswerOf(t.resp)))

\* The terminal envelope of a failed call: empty message, histories as passed in.
FailureEnvelope(t) == AISimpleResponse(<<>>, t.chat_before, t.ml_before)

\* The three fields every envelope has.
Core(env) == <<env.bot_message, env.chat_history, env.chat_history_for_ml>>

\* C1: starting from an empty session, after any sequence of completed
\* turns (no clear), the session's display log has twice the length of its
\* ML log, and the i-th ML entry pairs with display entries 2i-1 (user,
\* question) and 2i (assistant, answer).
C1_LogsPaired ==
    turn.done =>
        /\ Len(chat_history) = 2 * Len(chat_history_for_ml)
        /\ \A i \in 1..Len(chat_history_for_ml) :
              /\ 2 * i <= Len(chat_history)
              /\ chat_history[2 * i - 1] =
                     Entry("user", chat_history_for_ml[i].inputs.question)
              /\ chat_history[2 * i] =
                     Entry("assistant", chat_history_for_ml[i].outputs)

\* C2: a submit whose call fails (HTTP error status, or an undecodable
\* body) leaves both logs as they were, in every variant: the session's
\* display log and ML log, and the two lists handed to the emitter.
C2_FailedCallLeavesLogs ==
    [][(submits' = submits + 1 /\ Failed(turn'.resp)) =>
          /\ chat_history' = chat_history
          /\ chat_history_for_ml' = chat_history_for_ml
          /\ frame'.chat_history = chat_history
          /\ frame'.chat_history_for_ml = chat_history_for_ml]_vars

C2_Witness ==
    /\ DecodeError(turn.resp)
    /\ Len(turn.ml_before) > 0
    /\ chat_history = turn.chat_before
    /\ chat_history_for_ml = turn.ml_before

\* C3: for an HTTP error and for an undecodable body, in every variant, no
\* exception leaves the handler and the surface receives a terminal
\* envelope with the histories unchanged.
C3_FailuresNeverRaise ==
    (Failed(turn.resp) /\ turn.done) =>
        /\ ~turn.raised
        /\ turn.delivered = 1
        /\ Len(turn.envs) = 1
        /\ turn.envs[1].chat_history = turn.chat_before
        /\ turn.envs[1].chat_history_for_ml = turn.ml_before

\* C4: in atomic mode a failed call makes respond_simple return one
\* envelope with an empty message and the histories passed in, and the
\* handler reads its three fields without an exception.
C4_AtomicFailureEnvelope ==
    (turn.kind = "simple" /\ Failed(turn.resp)) =>
        /\ turn.envs = <<FailureEnvelope(turn)>>
        /\ ~turn.raised

\* C5: in streaming mode a failed call yields exactly one envelope, with
\* an empty message and the histories unchanged, and the sequence ends.
C5_StreamFailureOneEnvelope ==
    (turn.kind = "stream" /\ Failed(turn.resp) /\ turn.done) =>
        turn.envs = <<FailureEnvelope(turn)>>

\* C6: after a successful call, in every variant, the emitter's display
\* log is the log passed in followed by the user entry and the assistant
\* entry, and its ML log is the log passed in followed by one entry.
C6_SuccessAppendsTurn ==
    Succeeded(turn.resp) =>
        /\ frame.chat_history = ChatAfter(turn)
        /\ frame.chat_history_for_ml = MLAfter(turn)
        /\ Len(frame.chat_history) = Len(turn.chat_before) + 2
        /\ Len(frame.chat_history_for_ml) = Len(turn.ml_before) + 1

C6_Witness ==
    /\ Succeeded(turn.resp)
    /\ Len(turn.chat_before) = 2
    /\ Len(frame.chat_history) = 4
    /\ Len(frame.chat_history_for_ml) = 2

\* C7: a successful streaming call with an answer of length N yields N
\* envelopes: never more than N, and exactly N when the sequence has
\* ended (none for N = 0).
C7_StreamLength ==
    (turn.kind = "stream" /\ Succeeded(turn.resp)) =>
        /\ Len(turn.envs) <= Len(AnswerOf(turn.resp))
        /\ turn.done => Len(turn.envs) = Len(AnswerOf(turn.resp))
        /\ (frame.pc = "idle") = turn.done

C7_Witness ==
    /\ turn.kind = "stream"
    /\ Succeeded(turn.resp)
    /\ turn.done
    /\ Len(AnswerOf(turn.resp)) = 2
    /\ Len(turn.envs) = 2

\* C8: the i-th envelope of a successful streaming sequence carries the
\* post-append display log with only its last entry replaced by the first
\* i characters of the answer; the last envelope reveals the whole answer.
C8_RevealPrefix ==
    (turn.kind = "stream" /\ Succeeded(turn.resp)) =>
        LET a == AnswerOf(turn.resp)
            post == ChatAfter(turn)
        IN  /\ \A i \in 1..Len(turn.envs) :
                 LET h == turn.envs[i].chat_history IN
                 /\ Len(h) = Len(post)
                 /\ \A k \in 1..(Len(post) - 1) : h[k] = post[k]
                 /\ h[Len(h)] = Entry("assistant", SubSeq(a, 1, i))
            /\ (turn.done /\ Len(a) >= 1) =>
                 /\ Len(turn.envs) >= 1
                 /\ turn.envs[Len(turn.envs)].chat_history[Len(post)].content = a

C8_Witness ==
    /\ turn.kind = "stream"
    /\ Succeeded(turn.resp)
    /\ turn.done
    /\ Len(turn.chat_before) = 2
    /\ Len(turn.envs) = 7

\* C9: for the same message, input histories and endpoint response with a
\* non-empty answer, the last envelope of the streaming sequence has the
\* display message, chat_history and chat_history_for_ml of the envelope
\* that atomic mode returns.
C9_StreamConvergesToAtomic ==
    (turn.kind = "stream" /\ Succeeded(turn.resp) /\ turn.done
       /\ Len(AnswerOf(turn.resp)) >= 1) =>
        /\ Len(turn.envs) >= 1
        /\ Core(turn.envs[Len(turn.envs)]) =
               Core(respond_simple(turn.msg, turn.chat_before, turn.ml_before,
                                   turn.resp).ret)

C9_Witness ==
    /\ turn.kind = "stream"
    /\ variant = "LV3"
    /\ Succeeded(turn.resp)
    /\ turn.done
    /\ Len(turn.ml_before) = 1
    /\ Len(turn.chat_before) = 2
    /\ Len(turn.envs) >= 1
    /\ turn.envs[Len(turn.envs)].chat_history[4].content = <<"o", "k">>

\* C10: every submitted message causes exactly one POST, in every variant
\* and for every outcome, however many envelopes are emitted.
C10_OnePostPerSubmit == posts = submits

C10_Witness ==
    /\ submits = 2
    /\ posts = 2
    /\ HttpError(turn.resp)
    /\ turn.done

\* C11: in the audit variant the session's call_count goes up by exactly 1
\* with every successful call, whatever the length of the answer (0
\* included), and stays as it was on a failed call.
C11_CallCountPerCall ==
    (variant = "LV3" /\ turn.kind = "stream" /\ turn.done) =>
        /\ Succeeded(turn.resp) => call_count = turn.audit_before.call_count + 1
        /\ Failed(turn.resp) => call_count = turn.audit_before.call_count

\* C12: all envelopes of one successful audit sequence carry the same
\* call_history, call log document and call_count, the ones computed before
\* the loop (one record more, count one higher than passed in); the display
\* message and the ML log are the same too, only chat_history differs.
C12_AuditFieldsShared ==
    (variant = "LV3" /\ turn.kind = "stream" /\ Succeeded(turn.resp)) =>
        /\ \A i \in 1..Len(turn.envs) :
              /\ turn.envs[i].cls = "AICustomResponse"
              /\ turn.envs[i].call_count = turn.audit_before.call_count + 1
              /\ Len(turn.envs[i].call_history) =
                     Len(turn.audit_before.call_history) + 1
              /\ turn.envs[i].call_history = frame.call_history
              /\ turn.envs[i].call_log_md_display = frame.call_log_md_display
              /\ turn.envs[i].call_count = frame.call_count
        /\ \A i, j \in 1..Len(turn.envs) :
              /\ turn.envs[i].call_history = turn.envs[j].call_history
              /\ turn.envs[i].call_log_md_display = turn.envs[j].call_log_md_display
              /\ turn.envs[i].call_count = turn.envs[j].call_count
              /\ turn.envs[i].bot_message = turn.envs[j].bot_message
              /\ turn.envs[i].chat_history_for_ml = turn.envs[j].chat_history_for_ml
              /\ i # j => turn.envs[i].chat_history # turn.envs[j].chat_history

C12_Witness ==
    /\ variant = "LV3"
    /\ Succeeded(turn.resp)
    /\ turn.done
    /\ Len(turn.envs) = 7
    /\ turn.audit_before.call_count = 1
    /\ turn.envs[7].call_count = 2

\* C13: in the audit variant the envelope of a failed call carries the
\* six fields, the audit ones as passed in, and the handler reads them
\* without an exception.
C13_AuditFailureEnvelope ==
    (variant = "LV3" /\ turn.kind = "stream" /\ Failed(turn.resp)) =>
        /\ Len(turn.envs) = 1
        /\ turn.envs[1].cls = "AICustomResponse"
        /\ turn.envs[1].call_history = turn.audit_before.call_history
        /\ turn.envs[1].call_log_md_display = turn.audit_before.call_log_md_display
        /\ turn.envs[1].call_count = turn.audit_before.call_count
        /\ ~turn.raised

\* C14: the records of the session's call_history are numbered 1, 2, ...,
\* k in order, without duplicate or gap, k being the session's call_count.
C14_RecordsNumbered ==
    /\ Len(call_history) = call_count
    /\ \A i \in 1..Len(call_history) : call_history[i].call_count = i

C14_Witness ==
    /\ variant = "LV3"
    /\ call_count = 2
    /\ Len(call_history) = 2
    /\ turn.done

\* The six components of the audit session, all empty.
SessionEmpty ==
    /\ msg = <<>>
    /\ chat_history = <<>>
    /\ chat_history_for_ml = <<>>
    /\ call_history = <<>>
    /\ call_log_md_display = NoDoc
    /\ call_count = 0

\* C15: in the audit variant a clear empties the display log, the ML log,
\* the input message, call_history, the call log document and call_count,
\* and the session is still empty when the next message is submitted: its
\* request carries an empty chat_history and its record is numbered 1.
C15_ClearResetsSession ==
    [][/\ clear_chat_btn => SessionEmpty'
       /\ (variant = "LV3" /\ SessionEmpty /\ submits' = submits) => SessionEmpty'
       /\ (variant = "LV3" /\ SessionEmpty /\ submits' = submits + 1) =>
             /\ requests'[Len(requests')].payload.chat_history = <<>>
             /\ frame'.call_count <= 1]_vars

\* C16: in LV1 and LV2 a clear empties the display log and the ML log, so
\* that the display log has twice the length of the ML log after it.
C16_ClearButtonResetsLogs ==
    [][ClearButton =>
          /\ chat_history' = <<>>
          /\ chat_history_for_ml' = <<>>
          /\ Len(chat_history') = 2 * Len(chat_history_for_ml')]_vars

\* The ML entries of the successful calls among the first k requests, in
\* the order the messages were submitted.
RECURSIVE SuccessfulPairs(_, _)
SuccessfulPairs(reqs, k) ==
    IF k = 0 THEN <<>>
    ELSE IF Succeeded(reqs[k].resp)
    THEN Append(SuccessfulPairs(reqs, k - 1),
                MLEntry(reqs[k].msg, AnswerOf(reqs[k].resp)))
    ELSE SuccessfulPairs(reqs, k - 1)

\* C17: over any sequence of submits of one session (no clear), the body
\* of each request is {question: the submitted message, chat_history: the
\* ML log before the turn}, that log being exactly the (question, answer)
\* pairs of the earlier successful turns in submission order; failed turns
\* add nothing, and the call itself leaves the ML log as it was handed in.
C17_RequestCarriesHistory ==
    /\ \A k \in 1..Len(requests) :
          requests[k].payload =
              [question |-> requests[k].msg,
               chat_history |-> SuccessfulPairs(requests, k - 1)]
    /\ chat_history_for_ml = SuccessfulPairs(requests, Len(requests))
    /\ Len(requests) >= 1 =>
          /\ requests[Len(requests)].payload.chat_history = turn.ml_before
          /\ ~Succeeded(turn.resp) => frame.chat_history_for_ml = turn.ml_before

C17_Witness ==
    /\ Len(requests) = 3
    /\ Failed(requests[1].resp)
    /\ Succeeded(requests[2].resp)
    /\ requests[3].payload.chat_history =
           <<MLEntry(requests[2].msg, AnswerOf(requests[2].resp))>>
    /\ requests[3].payload.question # requests[2].msg

\* A 200 response whose decodable body has no "answer" key.
NoAnswer(resp) == Succeeded(resp) /\ ~resp.body.has_answer

\* C18: when the endpoint succeeds with a decodable body that has no
\* answer key, the answer is the literal "<EMPTY>": the handler does not
\* fail, both histories record that literal as the assistant content and
\* as the outputs, the atomic mode returns it in one envelope and the
\* streaming mode reveals it in 7 envelopes, one more character each.
C18_MissingAnswerSentinel ==
    NoAnswer(turn.resp) =>
        /\ ~turn.raised
        /\ frame.bot_message = <<"<", "E", "M", "P", "T", "Y", ">">>
        /\ frame.chat_history =
               turn.chat_before \o <<Entry("user", turn.msg),
                                      Entry("assistant", frame.bot_message)>>
        /\ frame.chat_history_for_ml =
               Append(turn.ml_before, MLEntry(turn.msg, frame.bot_message))
        /\ turn.kind = "simple" =>
               /\ Len(turn.envs) = 1
               /\ turn.envs[1].chat_history = frame.chat_history
               /\ turn.envs[1].chat_history_for_ml = frame.chat_history_for_ml
        /\ turn.kind = "stream" =>
               /\ Len(turn.envs) <= 7
               /\ turn.done => Len(turn.envs) = 7
               /\ \A i \in 1..Len(turn.envs) :
                     turn.envs[i].chat_history[Len(frame.chat_history)] =
                            Entry("assistant", SubSeq(frame.bot_message, 1, i))

C18_Witness ==
    /\ NoAnswer(turn.resp)
    /\ turn.kind = "stream"
    /\ turn.done
    /\ Len(turn.envs) = 7
    /\ Len(turn.ml_before) = 1
    /\ chat_history[Len(chat_history)].content = EMPTY

\* needle occurs in s as a run of consecutive characters.
Occurs(needle, s) ==
    \E i \in 1..(Len(s) - Len(needle) + 1) :
        SubSeq(s, i, i + Len(needle) - 1) = needle

\* The strings of the two JSON bodies a call record prints.
PayloadTexts(rec) ==
    {rec.jinput.question, rec.joutput.answer}
        \cup {rec.jinput.chat_history[i].inputs.question :
                i \in 1..Len(rec.jinput.chat_history)}
        \cup {rec.jinput.chat_history[i].outputs :
                i \in 1..Len(rec.jinput.chat_history)}

\* The key is readable somewhere in the record.
KeyIn(rec) ==
    \/ Occurs(endpoint_key, rec.authorization.token)
    \/ \E t \in PayloadTexts(rec) : Occurs(endpoint_key, t)

\* The records of a call history.
Records(h) == {h[i] : i \in 1..Len(h)}

\* Every call record there is: in the session's call history and rendered
\* document, in the emitter's locals and in the envelopes it has yielded.
AllRecords ==
    Records(call_history) \cup Records(call_log_md_display.body)
        \cup Records(frame.call_history)
        \cup Records(frame.call_log_md_display.body)
        \cup UNION {Records(turn.envs[i].call_history)
                        \cup Records(turn.envs[i].call_log_md_display.body) :
                    i \in 1..Len(turn.envs)}

IsPrefix(s, t) == Len(s) <= Len(t) /\ SubSeq(t, 1, Len(s)) = s

\* C20: across any sequence of submits (successful or failed, any
\* variant) both histories only grow at the end: the display log and the
\* ML log before a turn are prefixes of the emitter's logs and of the
\* session's logs after it, and every envelope of a streaming sequence
\* agrees with the post-append display log on every entry but the last.
C20_AppendOnly ==
    /\ IsPrefix(turn.chat_before, frame.chat_history)
    /\ IsPrefix(turn.ml_before, frame.chat_history_for_ml)
    /\ IsPrefix(turn.chat_before, chat_history)
    /\ IsPrefix(turn.ml_before, chat_history_for_ml)
    /\ turn.kind = "stream" =>
          \A i \in 1..Len(turn.envs) :
              LET h == turn.envs[i].chat_history IN
              /\ Len(h) = Len(frame.chat_history)
              /\ \A k \in 1..(Len(h) - 1) : h[k] = frame.chat_history[k]
              /\ IsPrefix(turn.chat_before, h)
              /\ IsPrefix(turn.ml_before, turn.envs[i].chat_history_for_ml)

C20_Witness ==
    /\ turn.kind = "stream"
    /\ Len(turn.chat_before) = 2
    /\ Len(turn.ml_before) = 1
    /\ Len(turn.envs) = 2
    /\ Len(chat_history) = 4
    /\ Len(chat_history_for_ml) = 2
    /\ submits = 3

\* C21: every envelope of a successful streaming sequence, the first one
\* included, carries an ML log whose last entry is the question with the
\* complete answer, while the last entry of its display log holds the first
\* i characters only (fewer than the answer in every envelope but the last).
C21_MLCompleteFromFirstEnvelope ==
    (turn.kind = "stream" /\ Succeeded(turn.resp)) =>
        \A i \in 1..Len(turn.envs) :
            LET env == turn.envs[i]
                ml == env.chat_history_for_ml
                ch == env.chat_history
                a == AnswerOf(turn.resp)
            IN  /\ Len(ml) = Len(turn.ml_before) + 1
                /\ ml[Len(ml)] = [inputs |-> [question |-> turn.msg], outputs |-> a]
                /\ ch[Len(ch)].role = "assistant"
                /\ ch[Len(ch)].content = SubSeq(a, 1, i)
                /\ i < Len(a) => ch[Len(ch)].content # ml[Len(ml)].outputs

C21_Witness ==
    /\ turn.kind = "stream"
    /\ Succeeded(turn.resp)
    /\ Len(turn.ml_before) = 1
    /\ Len(turn.chat_before) = 2
    /\ Len(turn.envs) = 1
    /\ turn.envs[1].chat_history[4].content = <<"o">>
    /\ turn.envs[1].chat_history_for_ml[2].outputs = <<"o", "k">>

\* C22: in every envelope of a successful streaming sequence before the
\* last one, the display log it carries is not twice as long as the ML log
\* it carries, and the ML log is still the one from before the turn.
C22_UnpairedMidStream ==
    (turn.kind = "stream" /\ Succeeded(turn.resp)) =>
        \A i \in 1..Len(turn.envs) :
            i < Len(AnswerOf(turn.resp)) =>
                /\ Len(turn.envs[i].chat_history) #
                       2 * Len(turn.envs[i].chat_history_for_ml)
                /\ turn.envs[i].chat_history_for_ml = turn.ml_before

\* C22, amended: every envelope of a successful streaming sequence, the
\* ones before the last included, carries a display log two entries longer
\* and an ML log one entry longer than the logs before the turn; the ML
\* log is extended before the first envelope, and the display log is twice
\* as long as the ML log in the envelope whenever it was before the turn.
C22_LengthsInStepMidStream ==
    (turn.kind = "stream" /\ Succeeded(turn.resp)) =>
        \A i \in 1..Len(turn.envs) :
            LET ch == turn.envs[i].chat_history
                ml == turn.envs[i].chat_history_for_ml
            IN  /\ Len(ch) = Len(turn.chat_before) + 2
                /\ Len(ml) = Len(turn.ml_before) + 1
                /\ ml # turn.ml_before
                /\ Len(ch) - 2 * Len(ml) =
                       Len(turn.chat_before) - 2 * Len(turn.ml_before)

C22_Witness ==
    /\ turn.kind = "stream"
    /\ Succeeded(turn.resp)
    /\ ~turn.done
    /\ Len(AnswerOf(turn.resp)) = 2
    /\ Len(turn.envs) = 1
    /\ Len(turn.envs[1].chat_history) = 4
    /\ Len(turn.envs[1].chat_history_for_ml) = 2

\* C23: in the audit variant the call record of a turn is built before the
\* history append. Its request payload is {question: message,
\* chat_history: the ML log before this turn's append}, without the turn's
\* own answer. The order endpoint call, call_count increment, record
\* append, document render, history append, first envelope shows in what
\* each step leaves behind: a refused status leaves the count as it was; a
\* body that cannot be read leaves the count, the record and the document
\* but no history entry and no envelope; the record bears the incremented
\* count, the document holds the new record, and every envelope carries
\* the count, the record, the document and the appended histories.
C23_RecordBeforeAppend ==
    (variant = "LV3" /\ turn.kind = "stream") =>
        LET before == turn.audit_before
            n == Len(frame.call_history)
        IN  /\ HttpError(turn.resp) =>
                /\ frame.call_count = before.call_count
                /\ frame.call_history = before.call_history
                /\ frame.call_log_md_display = before.call_log_md_display
            /\ (DecodeError(turn.resp) \/ Succeeded(turn.resp)) =>
                /\ frame.call_count = before.call_count + 1
                /\ n = Len(before.call_history) + 1
                /\ SubSeq(frame.call_history, 1, n - 1) = before.call_history
                /\ frame.call_history[n].call_count = frame.call_count
                /\ frame.call_history[n].jinput =
                       [question |-> turn.msg, chat_history |-> turn.ml_before]
                /\ frame.call_history[n].jinput = requests[Len(requests)].payload
                /\ frame.call_log_md_display.rendered
                /\ frame.call_log_md_display.body = frame.call_history
            /\ DecodeError(turn.resp) =>
                /\ frame.chat_history = turn.chat_before
                /\ frame.chat_history_for_ml = turn.ml_before
                /\ turn.envs = <<>>
            /\ Succeeded(turn.resp) =>
                /\ frame.chat_history_for_ml =
                       Append(frame.call_history[n].jinput.chat_history,
                              MLEntry(turn.msg, AnswerOf(turn.resp)))
                /\ frame.call_history[n].jinput.chat_history #
                       frame.chat_history_for_ml
                /\ \A i \in 1..Len(turn.envs) :
                      /\ turn.envs[i].call_count = frame.call_count
                      /\ turn.envs[i].call_history = frame.call_history
                      /\ turn.envs[i].call_log_md_display =
                             frame.call_log_md_display
                      /\ turn.envs[i].chat_history_for_ml =
                             frame.chat_history_for_ml

C23_Witness ==
    /\ variant = "LV3"
    /\ turn.kind = "stream"
    /\ Succeeded(turn.resp)
    /\ Len(turn.ml_before) = 1
    /\ Len(turn.envs) = 2
    /\ Len(frame.call_history) = 2
    /\ frame.call_history[2].jinput.chat_history = turn.ml_before
    /\ Len(frame.chat_history_for_ml) = 2

\* C24: the call log is append-only and always rendered from the whole
\* history. After a successful audit call the emitter's call_history is
\* the one it was handed followed by exactly one new record (that of this
\* call), every envelope carries as document the rendering of the very
\* call_history it carries, and so does the session once it has received
\* an envelope; equal histories give equal documents.
C24_CallLogAppendOnly ==
    /\ (variant = "LV3" /\ turn.kind = "stream" /\ Succeeded(turn.resp)) =>
          /\ frame.call_history =
                 turn.audit_before.call_history
                     \o <<[call_count |-> turn.audit_before.call_count + 1,
                           authorization |-> MASKED,
                           jinput |-> requests[Len(requests)].payload,
                           joutput |-> JObject(turn.resp.body),
                           res_status_code |-> turn.resp.status,
                           res_status_reason |-> turn.resp.reason]>>
          /\ \A i \in 1..Len(turn.envs) :
                /\ turn.envs[i].call_history = frame.call_history
                /\ turn.envs[i].call_log_md_display =
                       [rendered |-> TRUE, body |-> turn.envs[i].call_history]
    /\ call_history # <<>> =>
          call_log_md_display = [rendered |-> TRUE, body |-> call_history]
    /\ \A e1, e2 \in {turn.envs[i] : i \in 1..Len(turn.envs)} :
          e1.call_history = e2.call_history =>
              e1.call_log_md_display = e2.call_log_md_display

C24_Witness ==
    /\ variant = "LV3"
    /\ turn.kind = "stream"
    /\ Succeeded(turn.resp)
    /\ Len(turn.audit_before.call_history) = 1
    /\ Len(turn.envs) = 2
    /\ Len(turn.envs[2].call_log_md_display.body) = 2
    /\ Len(call_log_md_display.body) = 2

\* A streaming sequence has delivered an envelope and has another to come.
MidStream ==
    /\ turn.kind = "stream"
    /\ frame.pc = "running"
    /\ turn.delivered >= 1
    /\ loop_has_next(frame)

\* The display and the textbox are as a clear leaves them (in LV3 the
\* whole session is).
Cleared ==
    /\ msg = <<>>
    /\ chat_history = <<>>
    /\ variant = "LV3" => SessionEmpty

\* C25: while a streaming sequence is in progress, between two of its
\* envelopes no other step of the session takes effect: the components
\* change only by the delivery of the next envelope, and a session that a
\* clear has emptied mid-stream is not written over by a later envelope
\* of the running sequence.
C25_NoStepBetweenEnvelopes ==
    [][MidStream =>
          /\ ui' # ui => turn'.delivered = turn.delivered + 1
          /\ Cleared => Cleared']_vars

C27_SurfaceKeepsUp ==
    (turn.kind = "stream" /\ Succeeded(turn.resp) /\ turn.done) =>
        /\ turn.delivered >= 1
        /\ Len(turn.envs) >= 1
        /\ turn.envs[Len(turn.envs)].chat_history = frame.chat_history
        /\ turn.envs[Len(turn.envs)].chat_history_for_ml =
               frame.chat_history_for_ml
        /\ chat_history = frame.chat_history
        /\ chat_history_for_ml = frame.chat_history_for_ml

====
